---- MODULE Spec2Model ----
(***************************************************************************)
(* A model of the recruitment chatbot's tools (src/tools.py): the          *)
(* applicant recorder CollectUserInfoTool.save_user_info with its remote   *)
(* sheet and local fallback file, the job directory of GetCurrentJobsTool  *)
(* with its cache and its matcher, the web search of RecruitmentSearchTool;*)
(* the list cells of the jobs tab (src/google_sheets_loader.py) and the    *)
(* chat turn of the Streamlit page (src/app.py); the knowledge index that  *)
(* setup_knowledge_base (src/knowledge_base.py) fills from the knowledge   *)
(* tab and its CSV cache.                                                  *)
(*                                                                         *)
(* Python strings that are only compared are TLA+ strings; the text of the *)
(* user-facing messages is transliterated to ASCII.  Strings that the code *)
(* lowercases, splits, strips and searches are sequences of one-character  *)
(* strings.  Python's None is NoneVal.                                     *)
(***************************************************************************)
EXTENDS Integers, Sequences, FiniteSets, TLC

\* ------------------------------------------------------------------ bounds
MaxCalls == 2        \* save_user_info calls started in one behaviour
MaxJobCalls == 3     \* get_current_jobs calls started in one behaviour
MaxPositionLen == 3  \* characters in `position`
MaxSkillsLen == 3    \* characters in `skills`
MaxCellLen == 4      \* characters in a list cell of the jobs tab
MaxItems == 4        \* results in one answer of the search backend
MaxRequested == 12   \* the largest max_results a call asks for
MaxTurns == 2        \* handle_user_input calls in one behaviour
MaxKbCalls == 3      \* setup_knowledge_base calls in one behaviour

\* ------------------------------------------------------------- input sets
NoneVal == "<None>"
Callers == {1, 2}
Names == {NoneVal, "", "A", "B"}
Emails == {NoneVal, "", "a@b.com"}
\* <<phone, profile_link, job_id>>
OptionalArgs == {<<NoneVal, NoneVal, NoneVal>>, <<"", "cv", "J1">>}
\* outcomes of one call to the remote sheet API
RemoteOutcomes == {"ok", "error", "timeout"}

\* Python truthiness of an Optional[str]: `not v`
Falsy(v) == v = NoneVal \/ v = ""
\* an `or ""` that is left out: None is stored as it is
OrEmptyKeepsNone(v) == v

\* `v or ""`
OrEmpty(v) == IF Falsy(v) THEN "" ELSE v

VARIABLES
    credentials_file,   \* self.credentials_file: NoneVal or a path
    cred_file_exists,   \* os.path.exists(self.credentials_file)
    env_creds,          \* client_email and private_key are set in the environment
    sheet,              \* the rows of the remote user-info worksheet
    local_file,         \* tmp/user_info.json: [kind, data]
    calls,              \* save_user_info calls started so far (the clock of datetime.now())
    latest,             \* the caller of the most recently started call
    pc,                 \* each caller's position in save_user_info
    args,               \* each caller's arguments
    next_row,           \* each caller's local next_row
    data,               \* each caller's local `data` in _save_to_local_file
    result,             \* each caller's returned string
    appended,           \* sinks the current call of each caller has appended to
    client_created,     \* the current call obtained a gspread client
    remote_error,       \* the remote step that failed in the current call, or "none"
    local_outcome,      \* how _save_to_local_file ended in the current call, or "none"
    sheet_at_call,      \* the sheet when the current call started
    file_at_call,       \* the local file when the current call started
    use_google_sheets,  \* GetCurrentJobsTool.use_google_sheets
    remote_jobs,        \* the records of the Google Sheets jobs tab
    jobs_file,          \* data/jobs.json: [kind, jobs]
    jobs_cache,         \* GetCurrentJobsTool._jobs_cache: [set, jobs], set = FALSE for None
    job_pc,             \* the position of the get_current_jobs call in progress
    loaded,             \* the local `jobs` of _load_jobs while save_jobs_to_json runs
    request,            \* the arguments of the get_current_jobs call
    job_result,         \* the string get_current_jobs returned
    job_calls,          \* get_current_jobs calls started so far
    fetched,            \* the sources the latest call went to: "sheets", "file"
    prior_cache,        \* _jobs_cache when the latest call started
    reload_requested,   \* reload_knowledge ran since the latest get_current_jobs call
    after_reload,       \* the latest get_current_jobs call was the first after a reload
    last_load,          \* the latest _load_jobs: [source, data, jobs]
    prev_load,          \* the _load_jobs before the latest one
    cell,               \* the text of a list cell handed to _parse_list_field
    parsed,             \* what _parse_list_field returned for it
    api_key,            \* RecruitmentSearchTool.api_key: NoneVal or the key
    cx,                 \* RecruitmentSearchTool.cx: NoneVal or the engine id
    search_args,        \* the arguments of search_recruitment_info: [query, max_results]
    http_requests,      \* the params of the requests.get calls of the search call
    backend,            \* what the search backend answered: [kind, items, error]
    search_result,      \* the string search_recruitment_info returned
    messages,           \* st.session_state.messages
    conversation_started, \* st.session_state.conversation_started
    turns,              \* handle_user_input calls so far
    agent_outcome,      \* what agent.chat did in the latest turn: [kind, chunks, error]
    escaped,            \* an exception left handle_user_input in the latest turn
    kb_use_google_sheets, \* RecruitmentAgent.use_google_sheets
    spreadsheet_id,     \* GoogleSheetsLoader.spreadsheet_id: NoneVal or the id
    knowledge_sheet,    \* the knowledge tab of the spreadsheet: [columns, rows]
    csv_file,           \* data/recruitment_knowledge.csv: [kind, rows]
    vector_db,              \* the LanceDb table: documents [content_hash, row]
    kb_pc,              \* the position of the setup_knowledge_base call in progress
    kb_op,              \* who made the latest call: "init" or "reload"
    force_reload,       \* the force_reload of the latest call
    df,                 \* what load_knowledge_data returned to the latest call
    kb_fetches,         \* the loads of the latest call: [sheet, outcome, frame]
    kb_ingest,          \* how the add_content of the latest call ended
    csv_at_call,        \* the CSV file when the latest call started
    vector_db_at_call,      \* the table when the latest call started
    kb_calls            \* setup_knowledge_base calls started so far

recorderVars == <<credentials_file, cred_file_exists, env_creds, sheet, local_file,
                  calls, latest, pc, args, next_row, data, result, appended,
                  client_created, remote_error, local_outcome, sheet_at_call, file_at_call>>

jobVars == <<use_google_sheets, remote_jobs, jobs_file, jobs_cache, job_pc, loaded,
             request, job_result, job_calls, fetched, prior_cache, reload_requested,
             after_reload, last_load, prev_load>>

parseVars == <<cell, parsed>>

searchVars == <<api_key, cx, search_args, http_requests, backend, search_result>>

chatVars == <<messages, conversation_started, turns, agent_outcome, escaped>>

kbVars == <<kb_use_google_sheets, spreadsheet_id, knowledge_sheet, csv_file, vector_db,
            kb_pc, kb_op, force_reload, df, kb_fetches, kb_ingest, csv_at_call,
            vector_db_at_call, kb_calls>>

vars == <<recorderVars, jobVars, parseVars, searchVars, chatVars, kbVars>>

\* ----------------------------------------------------------- the messages
\* src/tools.py:116
ValidationMsg == <<"Loi: Ten va email la bat buoc. Vui long cung cap day du thong tin.">>

RemoteSuccessMsgLeaky(name) ==
    <<"[OK] Da luu thong tin cua ", name, " vao Google Sheets thanh cong!">>

\* src/tools.py:157
RemoteSuccessMsg(name) ==
    <<"[OK] Da luu thong tin cua ", name,
      " thanh cong! Bo phan tuyen dung se lien he voi ban som nhat.">>

\* src/tools.py:202
LocalSuccessMsg(name) ==
    <<"[OK] Da luu thong tin cua ", name,
      " thanh cong! Bo phan tuyen dung se lien he voi ban som nhat.">>

\* src/tools.py:206, str(e) appended
LocalFailureMsg(e) == <<"[X] Loi khi luu thong tin: ", e>>

NoResult == <<>>

\* ------------------------------------------------------------ the records
\* datetime.now().strftime(...): one tick per started call
Timestamp == <<"ts", calls>>

\* src/tools.py:146
RowData(a) ==
    <<Timestamp, a.name, a.email, OrEmpty(a.phone), OrEmpty(a.profile_link), OrEmpty(a.job_id)>>

\* src/tools.py:186-193
UserData(a) ==
    [timestamp |-> Timestamp, name |-> a.name, email |-> a.email,
     phone |-> OrEmpty(a.phone), profile_link |-> OrEmpty(a.profile_link),
     job_id |-> OrEmpty(a.job_id)]

\* worksheet.col_values(1): column A down to the last populated row
ColValues(s) == [i \in 1..Len(s) |-> s[i][1]]

\* an insert_row that writes into the row at index instead of inserting one
InsertRowOverwrite(s, row, index) ==
    IF index <= Len(s) THEN [s EXCEPT ![index] = row] ELSE Append(s, row)

\* worksheet.insert_row(row, index): the rows from index on move down
InsertRowAt(s, row, index) ==
    SubSeq(s, 1, index - 1) \o <<row>> \o SubSeq(s, index, Len(s))

File(kind, d) == [kind |-> kind, data |-> d]

NoData == [isList |-> TRUE, items |-> <<>>]

NoArgs == [name |-> NoneVal, email |-> NoneVal, phone |-> NoneVal,
           profile_link |-> NoneVal, job_id |-> NoneVal]

\* ------------------------------------------------------------------- Init
RecorderInit ==
    /\ credentials_file \in {NoneVal, "credentials.json"}
    /\ cred_file_exists \in BOOLEAN
    /\ (credentials_file = NoneVal => ~cred_file_exists)
    /\ env_creds \in BOOLEAN
    /\ sheet = <<>>
    /\ local_file \in {File("absent", <<>>), File("array", <<>>),
                       File("notjson", <<>>), File("notarray", <<>>)}
    /\ calls = 0
    /\ latest = 1
    /\ pc = [c \in Callers |-> "idle"]
    /\ args = [c \in Callers |-> NoArgs]
    /\ next_row = [c \in Callers |-> 0]
    /\ data = [c \in Callers |-> NoData]
    /\ result = [c \in Callers |-> NoResult]
    /\ appended = [c \in Callers |-> {}]
    /\ client_created = [c \in Callers |-> FALSE]
    /\ remote_error = [c \in Callers |-> "none"]
    /\ local_outcome = [c \in Callers |-> "none"]
    /\ sheet_at_call = [c \in Callers |-> <<>>]
    /\ file_at_call = [c \in Callers |-> File("absent", <<>>)]

\* ----------------------------------------------------- save_user_info steps
configVars == <<credentials_file, cred_file_exists, env_creds>>
callVars == <<calls, latest, args, sheet_at_call, file_at_call>>

\* No other call is in progress, and the callers take turns.
Quiescent(c) == /\ \A d \in Callers \ {c} : pc[d] \in {"idle", "done"}
                /\ c = (calls % Cardinality(Callers)) + 1

\* `not name or not email`
MissingRequiredNameOnly(name, email) == Falsy(name)

MissingRequired(name, email) == Falsy(name) \/ Falsy(email)

\* the call goes on to its next remote step
Proceed(c, label) ==
    /\ pc' = [pc EXCEPT ![c] = label]
    /\ UNCHANGED <<result, remote_error>>

\* `return msg`
Return(c, msg) ==
    /\ pc' = [pc EXCEPT ![c] = "done"]
    /\ result' = [result EXCEPT ![c] = msg]
    /\ UNCHANGED remote_error

\* a broken fallback: the remote failure is reported and the local file is not tried
FallbackGivesUp(c, step) ==
    /\ pc' = [pc EXCEPT ![c] = "done"]
    /\ result' = [result EXCEPT ![c] = <<"[X] Loi khi luu thong tin: ", step>>]
    /\ remote_error' = [remote_error EXCEPT ![c] = step]

\* `return self._save_to_local_file(...)` after the remote step `step` failed
Fallback(c, step) ==
    /\ pc' = [pc EXCEPT ![c] = "local_read"]
    /\ remote_error' = [remote_error EXCEPT ![c] = step]
    /\ UNCHANGED result

\* _get_google_sheets_client: environment credentials first, else the
\* credentials file, else None; any exception gives None.
GetGoogleSheetsClient(authorized) ==
    IF env_creds THEN authorized
    ELSE IF credentials_file # NoneVal /\ cred_file_exists THEN authorized
    ELSE FALSE

\* save_user_info up to the client: validation, the credential checks,
\* _get_google_sheets_client.
SaveUserInfo(c, name, email, opt) ==
    /\ pc[c] \in {"idle", "done"}
    /\ calls < MaxCalls
    /\ calls' = calls + 1
    /\ latest' = c
    /\ args' = [args EXCEPT ![c] = [name |-> name, email |-> email, phone |-> opt[1],
                                    profile_link |-> opt[2], job_id |-> opt[3]]]
    /\ appended' = [appended EXCEPT ![c] = {}]
    /\ sheet_at_call' = [sheet_at_call EXCEPT ![c] = sheet]
    /\ file_at_call' = [file_at_call EXCEPT ![c] = local_file]
    /\ next_row' = [next_row EXCEPT ![c] = 0]
    /\ data' = [data EXCEPT ![c] = NoData]
    /\ local_outcome' = [local_outcome EXCEPT ![c] = "none"]
    /\ IF MissingRequired(name, email)
       THEN /\ pc' = [pc EXCEPT ![c] = "done"]
            /\ result' = [result EXCEPT ![c] = ValidationMsg]
            /\ remote_error' = [remote_error EXCEPT ![c] = "none"]
            /\ client_created' = [client_created EXCEPT ![c] = FALSE]
       ELSE IF credentials_file = NoneVal \/ ~cred_file_exists
       THEN /\ pc' = [pc EXCEPT ![c] = "local_read"]
            /\ result' = [result EXCEPT ![c] = NoResult]
            /\ remote_error' = [remote_error EXCEPT ![c] = "credentials_file"]
            /\ client_created' = [client_created EXCEPT ![c] = FALSE]
       ELSE \E authorized \in BOOLEAN :
            /\ result' = [result EXCEPT ![c] = NoResult]
            /\ client_created' = [client_created EXCEPT ![c] = GetGoogleSheetsClient(authorized)]
            /\ IF GetGoogleSheetsClient(authorized)
               THEN /\ pc' = [pc EXCEPT ![c] = "open"]
                    /\ remote_error' = [remote_error EXCEPT ![c] = "none"]
               ELSE /\ pc' = [pc EXCEPT ![c] = "local_read"]
                    /\ remote_error' = [remote_error EXCEPT ![c] = "client"]
    /\ UNCHANGED <<configVars, sheet, local_file>>

\* client.open_by_key, spreadsheet.worksheet
OpenSheet(c) ==
    /\ pc[c] = "open"
    /\ \E outcome \in RemoteOutcomes :
          IF outcome = "ok" THEN Proceed(c, "col_values") ELSE Fallback(c, "open_by_key")
    /\ UNCHANGED <<configVars, callVars, sheet, local_file, next_row, data, appended,
                   client_created, local_outcome>>

\* a next_row that is always the top of the sheet
NextRowTop(all_values) == 1

\* next_row = len(all_values) + 1
NextRow(all_values) == Len(all_values) + 1

\* all_values = worksheet.col_values(1); next_row = len(all_values) + 1
ReadColValues(c) ==
    /\ pc[c] = "col_values"
    /\ \E outcome \in RemoteOutcomes :
          IF outcome = "ok"
          THEN /\ Proceed(c, "insert_row")
               /\ next_row' = [next_row EXCEPT ![c] = NextRow(ColValues(sheet))]
          ELSE /\ Fallback(c, "col_values")
               /\ UNCHANGED next_row
    /\ UNCHANGED <<configVars, callVars, sheet, local_file, data, appended, client_created,
                   local_outcome>>

\* worksheet.insert_row, then the success message.  The request may be
\* applied by the server and still raise in the client (a lost or late
\* response); the except clause then falls back to the local file.
InsertRow(c) ==
    /\ pc[c] = "insert_row"
    /\ \E outcome \in RemoteOutcomes, applied \in BOOLEAN :
          /\ outcome = "ok" => applied
          /\ IF applied
             THEN /\ sheet' = InsertRowAt(sheet, RowData(args[c]), next_row[c])
                  /\ appended' = [appended EXCEPT ![c] = @ \cup {"remote"}]
             ELSE UNCHANGED <<sheet, appended>>
          /\ IF outcome = "ok"
             THEN Return(c, RemoteSuccessMsg(args[c].name))
             ELSE Fallback(c, "insert_row")
    /\ UNCHANGED <<configVars, callVars, local_file, next_row, data, client_created,
                   local_outcome>>

\* `return msg` out of _save_to_local_file, which ended as `how`
LocalReturn(c, how, msg) ==
    /\ Return(c, msg)
    /\ local_outcome' = [local_outcome EXCEPT ![c] = how]

\* _save_to_local_file up to json.load: os.makedirs, os.path.exists, open, json.load
LocalRead(c) ==
    /\ pc[c] = "local_read"
    /\ \E outcome \in {"ok", "makedirs_error", "read_error"} :
          IF outcome = "makedirs_error"
          THEN LocalReturn(c, "makedirs_error", LocalFailureMsg("makedirs")) /\ UNCHANGED data
          ELSE IF local_file.kind = "absent"
          THEN /\ outcome = "ok"
               /\ Proceed(c, "local_write")
               /\ data' = [data EXCEPT ![c] = [isList |-> TRUE, items |-> <<>>]]
               /\ UNCHANGED local_outcome
          ELSE IF outcome = "read_error"
          THEN LocalReturn(c, "read_error", LocalFailureMsg("open")) /\ UNCHANGED data
          ELSE IF local_file.kind = "notjson"
          THEN LocalReturn(c, "not_json", LocalFailureMsg("JSONDecodeError")) /\ UNCHANGED data
          ELSE /\ Proceed(c, "local_write")
               /\ data' = [data EXCEPT ![c] =
                              [isList |-> local_file.kind = "array", items |-> local_file.data]]
               /\ UNCHANGED local_outcome
    /\ UNCHANGED <<configVars, callVars, sheet, local_file, next_row, appended, client_created>>

\* _save_to_local_file from data.append on: append, open(file_path, "w"),
\* json.dump.  open(..., "w") truncates the file before json.dump writes.
LocalWrite(c) ==
    /\ pc[c] = "local_write"
    /\ \E outcome \in {"ok", "open_error", "dump_error"} :
          IF ~data[c].isList
          THEN /\ outcome = "ok"
               /\ LocalReturn(c, "not_array", LocalFailureMsg("AttributeError"))
               /\ UNCHANGED <<local_file, appended>>
          ELSE IF outcome = "ok"
          THEN /\ local_file' = File("array", Append(data[c].items, UserData(args[c])))
               /\ appended' = [appended EXCEPT ![c] = @ \cup {"local"}]
               /\ LocalReturn(c, "ok", LocalSuccessMsg(args[c].name))
          ELSE IF outcome = "open_error"
          THEN /\ LocalReturn(c, "open_error", LocalFailureMsg("open"))
               /\ UNCHANGED <<local_file, appended>>
          ELSE /\ local_file' = File("notjson", <<>>)
               /\ LocalReturn(c, "dump_error", LocalFailureMsg("write"))
               /\ UNCHANGED appended
    /\ UNCHANGED <<configVars, callVars, sheet, next_row, data, client_created>>

\* ============================================== GetCurrentJobsTool strings
\* A string the matcher works on is a sequence of characters; Python's None
\* in such a position is NoneStr.
NoneStr == <<"<None>">>
Whitespace == {" ", "\n"}

\* str.lower(), one character
LowerChar(ch) == CASE ch = "A" -> "a" [] ch = "B" -> "b" [] OTHER -> ch

\* str.lower()
Lower(s) == [i \in 1..Len(s) |-> LowerChar(s[i])]

\* str.strip()
RECURSIVE LStrip(_)
LStrip(s) == IF s # <<>> /\ Head(s) \in Whitespace THEN LStrip(Tail(s)) ELSE s
RECURSIVE RStrip(_)
RStrip(s) == IF s # <<>> /\ s[Len(s)] \in Whitespace
             THEN RStrip(SubSeq(s, 1, Len(s) - 1)) ELSE s
Strip(s) == RStrip(LStrip(s))

\* str.split(sep): the pieces between separators, empty pieces kept
RECURSIVE SplitAcc(_, _, _)
SplitAcc(s, sep, piece) ==
    IF s = <<>> THEN <<piece>>
    ELSE IF Head(s) = sep THEN <<piece>> \o SplitAcc(Tail(s), sep, <<>>)
    ELSE SplitAcc(Tail(s), sep, Append(piece, Head(s)))
Split(s, sep) == SplitAcc(s, sep, <<>>)

\* str.split(): the runs of non-whitespace characters
RECURSIVE SplitWsAcc(_, _)
SplitWsAcc(s, word) ==
    IF s = <<>> THEN (IF word = <<>> THEN <<>> ELSE <<word>>)
    ELSE IF Head(s) \in Whitespace
         THEN (IF word = <<>> THEN <<>> ELSE <<word>>) \o SplitWsAcc(Tail(s), <<>>)
    ELSE SplitWsAcc(Tail(s), Append(word, Head(s)))
SplitWhitespace(s) == SplitWsAcc(s, <<>>)

\* sep.join(items)
RECURSIVE Join(_, _)
Join(items, sep) ==
    IF items = <<>> THEN <<>>
    ELSE IF Len(items) = 1 THEN items[1]
    ELSE items[1] \o sep \o Join(Tail(items), sep)

\* `term in text`
Contains(text, term) ==
    \E i \in 1..(Len(text) + 1) :
        /\ i + Len(term) - 1 <= Len(text)
        /\ SubSeq(text, i, i + Len(term) - 1) = term

\* Python truthiness of an Optional[str]
Truthy(s) == s # NoneStr /\ s # <<>>

\* ----------------------------------------------------- get_current_jobs
\* [term.strip() for term in search_terms if term.strip()]
RECURSIVE CleanTerms(_)
CleanTerms(terms) ==
    IF terms = <<>> THEN <<>>
    ELSE (IF Strip(Head(terms)) # <<>> THEN <<Strip(Head(terms))>> ELSE <<>>)
         \o CleanTerms(Tail(terms))

\* the search terms without position.lower()
SearchTermsCaseSensitive(position, skills) ==
    CleanTerms((IF Truthy(position) THEN SplitWhitespace(position) ELSE <<>>)
               \o (IF Truthy(skills) THEN Split(Lower(skills), ",") ELSE <<>>))

\* search_terms of get_current_jobs
SearchTerms(position, skills) ==
    CleanTerms((IF Truthy(position) THEN SplitWhitespace(Lower(position)) ELSE <<>>)
               \o (IF Truthy(skills) THEN Split(Lower(skills), ",") ELSE <<>>))

\* job_text = f"{title} {description} {' '.join(skills)}".lower()
JobText(job) ==
    Lower(job.title \o <<" ">> \o job.description \o <<" ">> \o Join(job.skills, <<" ">>))

\* any(term in job_text for term in search_terms)
AnyTermIn(terms, text) == \E k \in 1..Len(terms) : Contains(text, terms[k])

\* the loop over jobs that keeps every job
MatchingJobsKeepAll(jobs, terms) == jobs

\* the loop over jobs that keeps nothing when there is no search term
RECURSIVE MatchingJobsNoTermsNoJobs(_, _)
MatchingJobsNoTermsNoJobs(jobs, terms) ==
    IF jobs = <<>> \/ terms = <<>> THEN <<>>
    ELSE (IF AnyTermIn(terms, JobText(Head(jobs))) THEN <<Head(jobs)>> ELSE <<>>)
         \o MatchingJobsNoTermsNoJobs(Tail(jobs), terms)

\* the loop `for job in jobs` building matching_jobs
RECURSIVE MatchingJobs(_, _)
MatchingJobs(jobs, terms) ==
    IF jobs = <<>> THEN <<>>
    ELSE (IF terms = <<>> THEN <<Head(jobs)>>
          ELSE IF AnyTermIn(terms, JobText(Head(jobs))) THEN <<Head(jobs)>>
          ELSE <<>>)
         \o MatchingJobs(Tail(jobs), terms)

\* _get_default_message
DefaultMessage == <<"default_message">>

\* one numbered entry of the formatted result
FormatJob(idx, job) ==
    [idx |-> idx, title |-> job.title, location |-> job.location,
     description |-> job.description, skills |-> Join(job.skills, <<",", " ">>)]

\* the formatted result of get_current_jobs
FormatJobs(matching) == <<"listing", [i \in 1..Len(matching) |-> FormatJob(i, matching[i])]>>

\* get_current_jobs once _load_jobs has returned `jobs`
MatchAndFormat(jobs, position, skills) ==
    IF jobs = <<>> THEN DefaultMessage
    ELSE LET matching == MatchingJobs(jobs, SearchTerms(position, skills))
         IN IF matching = <<>> THEN DefaultMessage ELSE FormatJobs(matching)

\* the strings of at most n characters
Strings(chars, n) == UNION {[1..k -> chars] : k \in 0..n}

\* ------------------------------------- GoogleSheetsLoader._parse_list_field
\* [item.strip() for item in items]
StripAll(items) == [i \in 1..Len(items) |-> Strip(items[i])]

\* [item for item in items if item]
RECURSIVE DropEmpty(_)
DropEmpty(items) ==
    IF items = <<>> THEN <<>>
    ELSE (IF Head(items) # <<>> THEN <<Head(items)>> ELSE <<>>) \o DropEmpty(Tail(items))

\* `sep in field_value`
HasChar(field_value, sep) == \E i \in 1..Len(field_value) : field_value[i] = sep

\* a _parse_list_field that tries the newline before the comma
ParseListFieldNewlineFirst(field_value) ==
    IF field_value = <<>> \/ field_value = NoneStr THEN <<>>
    ELSE LET items == IF HasChar(field_value, "\n")
                      THEN StripAll(Split(field_value, "\n"))
                      ELSE IF HasChar(field_value, ",")
                      THEN StripAll(Split(field_value, ","))
                      ELSE <<Strip(field_value)>>
         IN DropEmpty(items)

\* _parse_list_field
ParseListField(field_value) ==
    IF field_value = <<>> \/ field_value = NoneStr THEN <<>>
    ELSE LET items == IF HasChar(field_value, ",")
                      THEN StripAll(Split(field_value, ","))
                      ELSE IF HasChar(field_value, "\n")
                      THEN StripAll(Split(field_value, "\n"))
                      ELSE <<Strip(field_value)>>
         IN DropEmpty(items)

\* the texts of a list cell
Cells == Strings({"a", ",", "\n", " "}, MaxCellLen)

NotParsed == << <<"<not parsed>">> >>
ParseInit == cell \in Cells /\ parsed = NotParsed
ParseIdle == cell = <<>> /\ parsed = NotParsed

\* one call of _parse_list_field on the cell
ParseCell ==
    /\ parsed = NotParsed
    /\ parsed' = ParseListField(cell)
    /\ UNCHANGED cell

\* ------------------------------------------------------- the job directory
Job(title, description, skills, location) ==
    [title |-> title, description |-> description, skills |-> skills, location |-> location]

J1 == Job(<<"A", "b">>, <<"a">>, <<>>, "Ha Noi")
J2 == Job(<<"b">>, <<>>, << <<"a">>, <<"B">> >>, "Da Nang")
J3 == Job(<<"B">>, <<"b">>, << <<"b">> >>, "N/A")

Directories == {<<>>, <<J1>>, <<J1, J2>>, <<J3, J2, J1>>, <<J2, J3, J2>>}

\* one record of worksheet.get_all_records(): the skills are one cell of text
Record(title, description, skills, location) ==
    [title |-> title, description |-> description, skills |-> skills, location |-> location]

R1 == Record(<<"A", "b">>, <<"a">>, <<>>, "Ha Noi")
R2 == Record(<<"b">>, <<>>, <<"a", ",", " ", "B", ",">>, "Da Nang")

SheetVersions == {<<>>, <<R1>>, <<R1, R2>>}

\* the job dict load_jobs_data builds from a record
JobOfRecord(record) ==
    Job(record.title, record.description, ParseListField(record.skills), record.location)

JobsFile(kind, jobs) == [kind |-> kind, jobs |-> jobs]
NoCache == [set |-> FALSE, jobs |-> <<>>]
Cached(jobs) == [set |-> TRUE, jobs |-> jobs]

Request(position, skills) == [position |-> position, skills |-> skills]
Positions == Strings({"a", "A", "b", " "}, MaxPositionLen) \cup {NoneStr}
Skills == Strings({"B", ",", " "}, MaxSkillsLen) \cup {NoneStr}
SessionRequests == {Request(NoneStr, NoneStr), Request(<<"a">>, NoneStr),
                    Request(NoneStr, <<"b", "b">>)}

\* load_jobs_data: the job list, or None (here <<>>) when the call raises or
\* the tab has no records
ConvertRecords(records) == [i \in 1..Len(records) |-> JobOfRecord(records[i])]

\* a load_jobs_data whose job list outlives the call: every load adds to it
LoadJobsDataAccumulating(ok) ==
    IF ok /\ remote_jobs # <<>>
    THEN (IF last_load.source = "sheets" THEN last_load.jobs ELSE <<>>)
         \o ConvertRecords(remote_jobs)
    ELSE <<>>

LoadJobsData(ok) == IF ok /\ remote_jobs # <<>> THEN ConvertRecords(remote_jobs) ELSE <<>>

\* one _load_jobs: where the jobs came from, what was there, what it returned
Load(source, srcdata, jobs) == [source |-> source, data |-> srcdata, jobs |-> jobs]
\* what the source of a load held: the records of the tab, or the local file
Records(records) == [records |-> records, file |-> JobsFile("absent", <<>>)]
LocalFile(file) == [records |-> <<>>, file |-> file]
NoLoad == Load("none", Records(<<>>), <<>>)

\* a _load_jobs without the fallback to the local file
LocalJobsNone == <<>>

\* the fallback of _load_jobs: the jobs of the local file and the cache after it
LocalJobs == IF jobs_file.kind = "valid" THEN jobs_file.jobs ELSE <<>>
LocalCache == IF jobs_file.kind = "valid" THEN Cached(jobs_file.jobs) ELSE jobs_cache

\* a _load_jobs that forgets to fill the cache
CacheAfterLoadNever(jobs) == jobs_cache

\* self._jobs_cache = jobs
CacheAfterLoad(jobs) == Cached(jobs)

\* reload_knowledge leaves get_jobs_tool._jobs_cache alone
CacheAfterReload == jobs_cache

JobsInit ==
    /\ use_google_sheets \in BOOLEAN
    /\ remote_jobs \in SheetVersions
    /\ jobs_file \in {JobsFile("absent", <<>>), JobsFile("invalid", <<>>),
                      JobsFile("valid", <<>>), JobsFile("valid", <<J3>>)}
    /\ jobs_cache = NoCache
    /\ job_pc = "idle"
    /\ loaded = <<>>
    /\ request = Request(NoneStr, NoneStr)
    /\ job_result = NoResult
    /\ job_calls = 0
    /\ fetched = {}
    /\ prior_cache = NoCache
    /\ reload_requested = FALSE
    /\ after_reload = FALSE
    /\ last_load = NoLoad
    /\ prev_load = NoLoad

\* get_current_jobs up to the return of load_jobs_data: the cache test of
\* _load_jobs, the first fetch of the sheet, the local file; and, unless
\* save_jobs_to_json is still to run, the matching and the formatting.
GetCurrentJobs(position, skills) ==
    /\ job_pc = "idle"
    /\ job_calls < MaxJobCalls
    /\ job_calls' = job_calls + 1
    /\ request' = Request(position, skills)
    /\ prior_cache' = jobs_cache
    /\ after_reload' = reload_requested
    /\ reload_requested' = FALSE
    /\ prev_load' = last_load
    /\ IF jobs_cache.set
       THEN /\ job_result' = MatchAndFormat(jobs_cache.jobs, position, skills)
            /\ fetched' = {}
            /\ last_load' = Load("cache", Records(<<>>), jobs_cache.jobs)
            /\ UNCHANGED <<jobs_cache, job_pc, loaded>>
       ELSE \E ok \in BOOLEAN :
            IF use_google_sheets /\ LoadJobsData(ok) # <<>>
            THEN /\ job_pc' = "save_jobs_to_json"
                 /\ loaded' = LoadJobsData(ok)
                 /\ fetched' = {"sheets"}
                 /\ last_load' = Load("sheets", Records(remote_jobs), LoadJobsData(ok))
                 /\ UNCHANGED <<jobs_cache, job_result>>
            ELSE /\ ~use_google_sheets => ok
                 /\ fetched' = (IF use_google_sheets THEN {"sheets"} ELSE {}) \cup {"file"}
                 /\ jobs_cache' = LocalCache
                 /\ job_result' = MatchAndFormat(LocalJobs, position, skills)
                 /\ last_load' = Load("file", LocalFile(jobs_file), LocalJobs)
                 /\ UNCHANGED <<job_pc, loaded>>
    /\ UNCHANGED <<use_google_sheets, remote_jobs, jobs_file>>

\* the rest of get_current_jobs after a load from the sheet:
\* save_jobs_to_json fetches the sheet again and writes the local file, then
\* the cache is filled, the jobs are matched and formatted.
SaveJobsToJson ==
    /\ job_pc = "save_jobs_to_json"
    /\ \E ok \in BOOLEAN, written \in BOOLEAN :
          jobs_file' = IF written /\ LoadJobsData(ok) # <<>>
                       THEN JobsFile("valid", LoadJobsData(ok)) ELSE jobs_file
    /\ jobs_cache' = CacheAfterLoad(loaded)
    /\ job_result' = MatchAndFormat(loaded, request.position, request.skills)
    /\ job_pc' = "idle"
    /\ loaded' = <<>>
    /\ UNCHANGED <<use_google_sheets, remote_jobs, request, job_calls, fetched,
                   prior_cache, reload_requested, after_reload, last_load, prev_load>>

\* RecruitmentAgent.reload_knowledge, as far as the job directory goes: the
\* knowledge base is rebuilt, the job tool is not touched.
ReloadKnowledge ==
    /\ job_pc = "idle"
    /\ ~reload_requested
    /\ reload_requested' = TRUE
    /\ jobs_cache' = CacheAfterReload
    /\ UNCHANGED <<use_google_sheets, remote_jobs, jobs_file, job_pc, loaded, request,
                   job_result, job_calls, fetched, prior_cache, after_reload,
                   last_load, prev_load>>

\* the recruiters edit the jobs tab of the spreadsheet
RemoteEdit ==
    /\ \E v \in SheetVersions \ {remote_jobs} : remote_jobs' = v
    /\ UNCHANGED <<use_google_sheets, jobs_file, jobs_cache, job_pc, loaded, request,
                   job_result, job_calls, fetched, prior_cache, reload_requested,
                   after_reload, last_load, prev_load>>

\* the process restarts: initialize_agent builds a new agent, whose job tool
\* starts with an empty cache; the sheet and the files stay
Restart ==
    /\ job_pc = "idle"
    /\ jobs_cache.set \/ reload_requested
    /\ jobs_cache' = NoCache
    /\ reload_requested' = FALSE
    /\ UNCHANGED <<use_google_sheets, remote_jobs, jobs_file, job_pc, loaded, request,
                   job_result, job_calls, fetched, prior_cache, after_reload,
                   last_load, prev_load>>

\* ================================================= RecruitmentSearchTool
\* self.recruitment_sites
recruitment_sites ==
    << <<"site:vti.com.vn">>, <<"site:topcv.vn">>, <<"site:vietnamworks.com">>,
       <<"site:indeed.com">>, <<"site:jobstreet.com">>, <<"site:careerbuilder.com">>,
       <<"site:ziprecruiter.com">>, <<"site:glassdoor.com">>, <<"site:monster.com">>,
       <<"site:careerjet.com">>, <<"site:jobrapido.com">>, <<"site:topdev.vn">> >>

\* _build_site_scope: "(" + " OR ".join(self.recruitment_sites) + ")"
BuildSiteScope == <<"(">> \o Join(recruitment_sites, <<" OR ">>) \o <<")">>

\* an Optional[int]: <<>> is None, <<n>> is n
NoInt == <<>>
\* `num or 5`
OrFive(num) == IF num = NoInt \/ num = <<0>> THEN 5 ELSE num[1]
Min(a, b) == IF a <= b THEN a ELSE b
Max(a, b) == IF a >= b THEN a ELSE b

\* a cap that forgets the lower end
RequestedNumNoFloor(num) == Min(OrFive(num), 10)

\* n = max(1, min(int(num or 5), 10))
RequestedNum(num) == Max(1, Min(OrFive(num), 10))

\* the `q` the tool hands to _call_google_cse: the query as it came
QueryText(query) == <<query>>

\* params of requests.get
Params(q, num) ==
    [key |-> api_key, cx |-> cx, q |-> q, num |-> RequestedNum(num),
     safe |-> "off", hl |-> "vi", gl |-> "vn"]

\* one entry of data["items"]; an absent title is NoneVal
Item(title, snippet, link) == [title |-> title, snippet |-> snippet, link |-> link]
ItemKinds == {Item("T1", "s1", "u1"), Item(NoneVal, "", "u2"),
              Item("T3", "s3", ""), Item("T4", "", "u4")}

\* one line of the returned text: the fixed format of the line, the number
\* and the text it carries
Line(kind, idx, text) == [kind |-> kind, idx |-> idx, text |-> text]

\* the text for an empty result list
NotFoundMsg == <<Line("not_found", 0, "")>>
\* f"Khong the tim kiem thong tin: {str(e)}"
SearchFailureMsg(e) == <<Line("could_not_search", 0, e)>>
\* the ValueError of _call_google_cse
MissingConfigError == "Thieu cau hinh GOOGLE_CSE_API_KEY hoac GOOGLE_CSE_CX"

\* the lines of one result
ItemLines(idx, item) ==
    <<Line("title", idx, IF item.title = NoneVal THEN "(Khong tieu de)" ELSE item.title)>>
    \o (IF item.snippet # "" THEN <<Line("snippet", 0, item.snippet)>> ELSE <<>>)
    \o (IF item.link # "" THEN <<Line("link", 0, item.link)>> ELSE <<>>)
    \o <<Line("blank", 0, "")>>

RECURSIVE ResultLines(_, _)
ResultLines(items, idx) ==
    IF idx > Len(items) THEN <<>>
    ELSE ItemLines(idx, items[idx]) \o ResultLines(items, idx + 1)

\* `citations` after the loop
RECURSIVE Citations(_)
Citations(items) ==
    IF items = <<>> THEN <<>>
    ELSE (IF Head(items).link # "" THEN <<Head(items).link>> ELSE <<>>)
         \o Citations(Tail(items))

\* a citation section that lists every link
CitedAll(citations) == citations

\* citations[:3]
Cited(citations) == SubSeq(citations, 1, Min(3, Len(citations)))

\* the text for a non-empty result list
FormatResults(items) ==
    LET citations == Citations(items)
    IN <<Line("header", 0, ""), Line("blank", 0, "")>>
       \o ResultLines(items, 1)
       \o (IF citations # <<>>
           THEN <<Line("sources", 0, "")>>
                \o [i \in 1..Len(Cited(citations)) |-> Line("citation", 0, Cited(citations)[i])]
           ELSE <<>>)

\* a call that sends the request again when the first one failed
SentWithRetry(requests, params, answer) ==
    IF answer.kind = "error" THEN requests \o <<params, params>>
    ELSE Append(requests, params)

\* the requests.get of _call_google_cse
Sent(requests, params, answer) == Append(requests, params)

\* what the backend does with one request
Answer(kind, items, error) == [kind |-> kind, items |-> items, error |-> error]
NoAnswer == Answer("none", <<>>, "")
SearchErrors == {"ConnectionError", "ReadTimeout", "HTTPError 403", "HTTPError 500"}
ItemLists(n) == UNION {[1..k -> ItemKinds] : k \in 0..Min(n, MaxItems)}
Answers(n) == {Answer("items", items, "") : items \in ItemLists(n)}
              \cup {Answer("error", <<>>, e) : e \in SearchErrors}

SearchArgs(query, max_results) == [query |-> query, max_results |-> max_results]
Queries == {"python developer", "luong"}
MaxResultsValues == {NoInt} \cup {<<n>> : n \in -2..MaxRequested}

SearchInit ==
    /\ api_key \in {NoneVal, "key"}
    /\ cx \in {NoneVal, "cx"}
    /\ search_args \in {SearchArgs(q, m) : q \in Queries, m \in MaxResultsValues}
    /\ http_requests = <<>>
    /\ backend = NoAnswer
    /\ search_result = NoResult

SearchIdle ==
    /\ api_key = NoneVal /\ cx = NoneVal
    /\ search_args = SearchArgs("", NoInt)
    /\ http_requests = <<>> /\ backend = NoAnswer /\ search_result = NoResult

\* search_recruitment_info(query, max_results), with _call_google_cse
SearchRecruitmentInfo ==
    /\ search_result = NoResult
    /\ IF api_key = NoneVal \/ cx = NoneVal
       THEN /\ search_result' = SearchFailureMsg(MissingConfigError)
            /\ UNCHANGED <<http_requests, backend>>
       ELSE LET params == Params(QueryText(search_args.query), search_args.max_results)
            IN \E answer \in Answers(params.num) :
                     /\ http_requests' = Sent(http_requests, params, answer)
                     /\ backend' = answer
                     /\ search_result' =
                            IF answer.kind = "error" THEN SearchFailureMsg(answer.error)
                            ELSE IF answer.items = <<>> THEN NotFoundMsg
                            ELSE FormatResults(answer.items)
    /\ UNCHANGED <<api_key, cx, search_args>>

\* ====================================================== the chat turn
\* one entry of st.session_state.messages
Message(role, content) == [role |-> role, content |-> content]
Greeting == Message("assistant", <<"greeting">>)

\* what agent.chat does in a turn: it returns a response with a content, or
\* it raises (the page does not ask for a stream)
Outcome(kind, content, error) == [kind |-> kind, content |-> content, error |-> error]
NoOutcome == Outcome("none", "", "")
AgentErrors == {"APIConnectionError", "RateLimitError 429"}
Outcomes == {Outcome("response", c, "") : c \in {"", "answer"}}
            \cup {Outcome("raises", "", e) : e \in AgentErrors}
UserInputs == {"hello", "jobs?", "apply"}

\* f"[X] Xin loi, da co loi xay ra: {str(e)}"
ApologyMsg(e) == <<"[X] Xin loi, da co loi xay ra: ", e>>

\* a handler without the outer `except Exception`
OuterExceptMissing(e) == [caught |-> FALSE, entries |-> <<>>]

\* an outer `except Exception` that logs and appends nothing
OuterExceptSilent(e) == [caught |-> TRUE, entries |-> <<>>]

\* the outer `except Exception as e` of handle_user_input
OuterExcept(e) == [caught |-> TRUE, entries |-> <<Message("assistant", ApologyMsg(e))>>]

ChatInit ==
    /\ messages = <<>>
    /\ conversation_started = FALSE
    /\ turns = 0
    /\ agent_outcome = NoOutcome
    /\ escaped = FALSE

ChatIdle == ChatInit

\* send_greeting
SendGreeting ==
    /\ ~conversation_started
    /\ messages' = Append(messages, Greeting)
    /\ conversation_started' = TRUE
    /\ UNCHANGED <<turns, agent_outcome, escaped>>

\* handle_user_input(user_input)
HandleUserInput(user_input, outcome) ==
    /\ conversation_started
    /\ turns < MaxTurns
    /\ turns' = turns + 1
    /\ agent_outcome' = outcome
    /\ IF outcome.kind = "raises"
       THEN /\ messages' = Append(messages, Message("user", <<user_input>>))
                           \o OuterExcept(outcome.error).entries
            /\ escaped' = ~OuterExcept(outcome.error).caught
       ELSE /\ messages' = Append(messages, Message("user", <<user_input>>))
                           \o <<Message("assistant", <<outcome.content>>)>>
            /\ escaped' = FALSE
    /\ UNCHANGED conversation_started

\* the "new conversation" and "clear history" buttons
ClearChat ==
    /\ messages # <<>>
    /\ messages' = <<>>
    /\ conversation_started' = FALSE
    /\ agent_outcome' = NoOutcome
    /\ UNCHANGED <<turns, escaped>>

\* ================================================= the knowledge index
\* required_columns of load_knowledge_data
required_columns == {"Question", "Answer", "Category"}

\* the knowledge tab: its header row and its data rows
KnowledgeSheet(columns, rows) == [columns |-> columns, rows |-> rows]
KnowledgeSheetVersions ==
    { KnowledgeSheet(required_columns, <<>>),
      KnowledgeSheet(required_columns, <<"q1", "q2">>),
      KnowledgeSheet(required_columns \cup {"Note"}, <<"q2", "q3">>),
      KnowledgeSheet({"Question", "Answer"}, <<"q4">>),
      KnowledgeSheet({"Question", "Category", "Note"}, <<"q5", "q6">>) }

\* a DataFrame, or None
Frame(rows) == [set |-> TRUE, rows |-> rows]
NoFrame == [set |-> FALSE, rows |-> <<>>]
FetchOutcomes == {"ok", "error"}

\* a load_knowledge_data that does not look at the columns
LoadKnowledgeDataUnvalidated(outcome) ==
    IF spreadsheet_id = NoneVal THEN NoFrame
    ELSE IF outcome = "error" THEN NoFrame
    ELSE IF knowledge_sheet.rows = <<>> THEN NoFrame
    ELSE Frame(knowledge_sheet.rows)

\* GoogleSheetsLoader.load_knowledge_data: the frame of the tab, or None
LoadKnowledgeData(outcome) ==
    IF spreadsheet_id = NoneVal THEN NoFrame
    ELSE IF outcome = "error" THEN NoFrame
    ELSE IF knowledge_sheet.rows = <<>> THEN NoFrame
    ELSE IF ~(required_columns \subseteq knowledge_sheet.columns) THEN NoFrame
    ELSE Frame(knowledge_sheet.rows)

\* one load of the tab, as the latest call saw it
Fetch(sheet_seen, outcome, frame) ==
    [sheet |-> sheet_seen, outcome |-> outcome, frame |-> frame]

\* the CSV cache
Csv(kind, rows) == [kind |-> kind, rows |-> rows]
CsvAbsent == Csv("absent", <<>>)

\* the documents CSVReader with RowChunking makes of a file: one for a row,
\* each with the content hash of the path it was read from
Document(content_hash, row) == [content_hash |-> content_hash, row |-> row]
CsvHash == "data/recruitment_knowledge.csv"
ReadCsv(file) == [i \in 1..Len(file.rows) |-> Document(CsvHash, file.rows[i])]
HasOtherHash(doc) == doc.content_hash # CsvHash

\* Knowledge.add_content(path=csv_file) on the table: the documents with the
\* content hash of the path are deleted, those read from the file are inserted;
\* when it raises, before the delete or between the delete and the insert,
\* the exception is logged and the call goes on
IngestOutcomes == {"ok", "raises", "raises_after_delete"}
AddContentTo(table, file, outcome) ==
    IF outcome = "ok" THEN SelectSeq(table, HasOtherHash) \o ReadCsv(file)
    ELSE IF outcome = "raises_after_delete" THEN SelectSeq(table, HasOtherHash)
    ELSE table

KbInit ==
    /\ kb_use_google_sheets \in BOOLEAN
    /\ spreadsheet_id \in {NoneVal, "id"}
    /\ knowledge_sheet \in KnowledgeSheetVersions
    /\ csv_file \in {CsvAbsent, Csv("present", <<"q0", "q1">>)}
    /\ vector_db = <<>>
    /\ kb_pc = "new"
    /\ kb_op = "none"
    /\ force_reload = FALSE
    /\ df = NoFrame
    /\ kb_fetches = <<>>
    /\ kb_ingest = "none"
    /\ csv_at_call = CsvAbsent
    /\ vector_db_at_call = <<>>
    /\ kb_calls = 0

\* the knowledge index before the agent is built, for the behaviours of the tools
KbIdle ==
    /\ kb_use_google_sheets = TRUE /\ spreadsheet_id = NoneVal
    /\ knowledge_sheet = KnowledgeSheet(required_columns, <<>>)
    /\ csv_file = CsvAbsent /\ vector_db = <<>>
    /\ kb_pc = "new" /\ kb_op = "none" /\ force_reload = FALSE
    /\ df = NoFrame /\ kb_fetches = <<>> /\ kb_ingest = "none"
    /\ csv_at_call = CsvAbsent /\ vector_db_at_call = <<>>
    /\ kb_calls = 0

\* setup_knowledge_base(force_reload) up to the end of its first load
SetupKnowledgeBase(op, force, outcome) ==
    /\ kb_calls < MaxKbCalls
    /\ kb_calls' = kb_calls + 1
    /\ kb_op' = op
    /\ force_reload' = force
    /\ csv_at_call' = csv_file
    /\ vector_db_at_call' = vector_db
    /\ kb_ingest' = "none"
    /\ IF kb_use_google_sheets /\ (force \/ csv_file.kind = "absent")
       THEN /\ df' = LoadKnowledgeData(outcome)
            /\ kb_fetches' = <<Fetch(knowledge_sheet, outcome, LoadKnowledgeData(outcome))>>
            /\ kb_pc' = IF LoadKnowledgeData(outcome).set
                        THEN "save_knowledge_to_csv" ELSE "add_content"
       ELSE /\ df' = NoFrame
            /\ kb_fetches' = <<>>
            /\ kb_pc' = "add_content"
    /\ UNCHANGED <<kb_use_google_sheets, spreadsheet_id, knowledge_sheet, csv_file, vector_db>>

\* RecruitmentAgent.__init__: setup_knowledge_base without force_reload
AgentInit ==
    /\ kb_pc = "new"
    /\ \E outcome \in FetchOutcomes : SetupKnowledgeBase("init", FALSE, outcome)

\* RecruitmentAgent.reload_knowledge: setup_knowledge_base(force_reload=True)
ReloadKnowledgeIndex ==
    /\ kb_pc = "idle"
    /\ \E outcome \in FetchOutcomes : SetupKnowledgeBase("reload", TRUE, outcome)

\* save_knowledge_to_csv: loads the tab again and writes what it gets
SaveKnowledgeToCsv ==
    /\ kb_pc = "save_knowledge_to_csv"
    /\ \E outcome \in FetchOutcomes :
          /\ kb_fetches' = Append(kb_fetches, Fetch(knowledge_sheet, outcome, LoadKnowledgeData(outcome)))
          /\ csv_file' = IF LoadKnowledgeData(outcome).set
                         THEN Csv("present", LoadKnowledgeData(outcome).rows)
                         ELSE csv_file
    /\ kb_pc' = "add_content"
    /\ UNCHANGED <<kb_use_google_sheets, spreadsheet_id, knowledge_sheet, vector_db, kb_op,
                   force_reload, df, kb_ingest, csv_at_call, vector_db_at_call, kb_calls>>

\* the rest of setup_knowledge_base: the CSV file, when it exists, is added
AddContent ==
    /\ kb_pc = "add_content"
    /\ IF csv_file.kind = "absent"
       THEN /\ kb_ingest' = "skipped"
            /\ UNCHANGED vector_db
       ELSE \E outcome \in IngestOutcomes :
               /\ kb_ingest' = outcome
               /\ vector_db' = AddContentTo(vector_db, csv_file, outcome)
    /\ kb_pc' = "idle"
    /\ UNCHANGED <<kb_use_google_sheets, spreadsheet_id, knowledge_sheet, csv_file, kb_op,
                   force_reload, df, kb_fetches, csv_at_call, vector_db_at_call, kb_calls>>

\* somebody edits the knowledge tab
KnowledgeSheetEdit ==
    /\ knowledge_sheet' \in KnowledgeSheetVersions \ {knowledge_sheet}
    /\ UNCHANGED <<kb_use_google_sheets, spreadsheet_id, csv_file, vector_db, kb_pc, kb_op,
                   force_reload, df, kb_fetches, kb_ingest, csv_at_call, vector_db_at_call,
                   kb_calls>>

\* the process starts again: the CSV file and the table are on disk
KbRestart ==
    /\ kb_pc = "idle"
    /\ kb_pc' = "new"
    /\ UNCHANGED <<kb_use_google_sheets, spreadsheet_id, knowledge_sheet, csv_file, vector_db,
                   kb_op, force_reload, df, kb_fetches, kb_ingest, csv_at_call,
                   vector_db_at_call, kb_calls>>

\* ===================================================== the specifications
\* the recorder before any call, for the behaviours of the other tools
RecorderIdle ==
    /\ credentials_file = NoneVal /\ cred_file_exists = FALSE /\ env_creds = FALSE
    /\ sheet = <<>> /\ local_file = File("absent", <<>>)
    /\ calls = 0 /\ latest = 1
    /\ pc = [c \in Callers |-> "idle"]
    /\ args = [c \in Callers |-> NoArgs]
    /\ next_row = [c \in Callers |-> 0]
    /\ data = [c \in Callers |-> NoData]
    /\ result = [c \in Callers |-> NoResult]
    /\ appended = [c \in Callers |-> {}]
    /\ client_created = [c \in Callers |-> FALSE]
    /\ remote_error = [c \in Callers |-> "none"]
    /\ local_outcome = [c \in Callers |-> "none"]
    /\ sheet_at_call = [c \in Callers |-> <<>>]
    /\ file_at_call = [c \in Callers |-> File("absent", <<>>)]

\* the job tool before any call, for the behaviours of the recorder
JobsIdle ==
    /\ use_google_sheets = TRUE /\ remote_jobs = <<>>
    /\ jobs_file = JobsFile("absent", <<>>)
    /\ jobs_cache = NoCache /\ job_pc = "idle" /\ loaded = <<>>
    /\ request = Request(NoneStr, NoneStr) /\ job_result = NoResult
    /\ job_calls = 0 /\ fetched = {} /\ prior_cache = NoCache
    /\ reload_requested = FALSE /\ after_reload = FALSE
    /\ last_load = NoLoad /\ prev_load = NoLoad

\* the variables a tool's steps leave alone
besidesRecorder == <<jobVars, parseVars, searchVars, chatVars, kbVars>>
besidesJobs == <<recorderVars, parseVars, searchVars, chatVars, kbVars>>
besidesParse == <<recorderVars, jobVars, searchVars, chatVars, kbVars>>
besidesSearch == <<recorderVars, jobVars, parseVars, chatVars, kbVars>>
besidesChat == <<recorderVars, jobVars, parseVars, searchVars, kbVars>>
besidesKb == <<recorderVars, jobVars, parseVars, searchVars, chatVars>>

\* the steps of the save_user_info calls in progress
RecorderSteps(c) ==
    \/ OpenSheet(c) /\ UNCHANGED besidesRecorder
    \/ ReadColValues(c) /\ UNCHANGED besidesRecorder
    \/ InsertRow(c) /\ UNCHANGED besidesRecorder
    \/ LocalRead(c) /\ UNCHANGED besidesRecorder
    \/ LocalWrite(c) /\ UNCHANGED besidesRecorder

\* save_user_info calls one after another (one Streamlit session)
InitRecorder == RecorderInit /\ JobsIdle /\ ParseIdle /\ SearchIdle /\ ChatIdle /\ KbIdle
NextRecorder ==
    \E c \in Callers :
        \/ /\ Quiescent(c)
           /\ \E name \in Names, email \in Emails, opt \in OptionalArgs :
                 SaveUserInfo(c, name, email, opt)
           /\ UNCHANGED besidesRecorder
        \/ RecorderSteps(c)
SpecRecorder == InitRecorder /\ [][NextRecorder]_vars

\* one tool instance over a session: calls, reloads, edits of the sheet
InitJobs == JobsInit /\ RecorderIdle /\ ParseIdle /\ SearchIdle /\ ChatIdle /\ KbIdle
NextJobs ==
    \/ /\ \E r \in SessionRequests : GetCurrentJobs(r.position, r.skills)
       /\ UNCHANGED besidesJobs
    \/ SaveJobsToJson /\ UNCHANGED besidesJobs
    \/ ReloadKnowledge /\ UNCHANGED besidesJobs
    \/ RemoteEdit /\ UNCHANGED besidesJobs
SpecJobs == InitJobs /\ [][NextJobs]_vars

\* the job tool over restarts of the process: every restart loads again
NextLoad ==
    \/ NextJobs
    \/ Restart /\ UNCHANGED besidesJobs
SpecLoad == InitJobs /\ [][NextLoad]_vars

\* the matcher on every directory and every request: one call on a fresh
\* tool whose directory comes from the local jobs file
InitMatch ==
    /\ RecorderIdle /\ ParseIdle /\ SearchIdle /\ ChatIdle /\ KbIdle
    /\ use_google_sheets = FALSE /\ remote_jobs = <<>>
    /\ jobs_file \in {JobsFile("valid", d) : d \in Directories}
    /\ jobs_cache = NoCache /\ job_pc = "idle" /\ loaded = <<>>
    /\ request \in {Request(p, s) : p \in Positions, s \in Skills}
    /\ job_result = NoResult
    /\ job_calls = 0 /\ fetched = {} /\ prior_cache = NoCache
    /\ reload_requested = FALSE /\ after_reload = FALSE
    /\ last_load = NoLoad /\ prev_load = NoLoad
NextMatch ==
    /\ job_calls = 0
    /\ GetCurrentJobs(request.position, request.skills)
    /\ UNCHANGED besidesJobs
SpecMatch == InitMatch /\ [][NextMatch]_vars

\* _parse_list_field on every cell text
InitParse == ParseInit /\ RecorderIdle /\ JobsIdle /\ SearchIdle /\ ChatIdle /\ KbIdle
NextParse == ParseCell /\ UNCHANGED besidesParse
SpecParse == InitParse /\ [][NextParse]_vars

\* one search_recruitment_info call for every configuration, every
\* max_results and every answer of the backend
InitSearch == SearchInit /\ RecorderIdle /\ JobsIdle /\ ParseIdle /\ ChatIdle /\ KbIdle
NextSearch == SearchRecruitmentInfo /\ UNCHANGED besidesSearch
SpecSearch == InitSearch /\ [][NextSearch]_vars

\* the turns of one chat page
NextChat ==
    \/ SendGreeting /\ UNCHANGED besidesChat
    \/ /\ \E u \in UserInputs, o \in Outcomes : HandleUserInput(u, o)
       /\ UNCHANGED besidesChat
    \/ ClearChat /\ UNCHANGED besidesChat

InitChat == ChatInit /\ RecorderIdle /\ JobsIdle /\ ParseIdle /\ SearchIdle /\ KbIdle
SpecChat == InitChat /\ [][NextChat]_vars

\* the knowledge index over the life of a deployment: the agent is built,
\* the page reloads the knowledge, the tab is edited, the process restarts
InitKnowledge == KbInit /\ RecorderIdle /\ JobsIdle /\ ParseIdle /\ SearchIdle /\ ChatIdle
NextKnowledge ==
    \/ AgentInit /\ UNCHANGED besidesKb
    \/ ReloadKnowledgeIndex /\ UNCHANGED besidesKb
    \/ SaveKnowledgeToCsv /\ UNCHANGED besidesKb
    \/ AddContent /\ UNCHANGED besidesKb
    \/ KnowledgeSheetEdit /\ UNCHANGED besidesKb
    \/ KbRestart /\ UNCHANGED besidesKb
SpecKnowledge == InitKnowledge /\ [][NextKnowledge]_vars

\* the three tools and the chat turn, each from its own start: a behaviour
\* exercises the one whose first step it takes
InitTools ==
    /\ KbIdle
    /\ \/ RecorderInit /\ JobsIdle /\ SearchIdle /\ ChatIdle /\ ParseIdle
       \/ JobsInit /\ RecorderIdle /\ SearchIdle /\ ChatIdle /\ ParseIdle
       \/ SearchInit /\ RecorderIdle /\ JobsIdle /\ ChatIdle /\ ParseIdle
       \/ ChatInit /\ RecorderIdle /\ JobsIdle /\ SearchIdle /\ ParseIdle
NextTools ==
    \/ JobsIdle /\ SearchIdle /\ ChatIdle /\ NextRecorder
    \/ RecorderIdle /\ SearchIdle /\ ChatIdle /\ NextJobs
    \/ RecorderIdle /\ JobsIdle /\ ChatIdle /\ NextSearch
    \/ RecorderIdle /\ JobsIdle /\ SearchIdle /\ NextChat
SpecTools == InitTools /\ [][NextTools]_vars

\* save_user_info calls of two sessions at once, with the credentials file
\* in place and valid arguments: the steps of the calls interleave freely
InitConcurrent ==
    /\ RecorderInit /\ JobsIdle /\ ParseIdle /\ SearchIdle /\ ChatIdle /\ KbIdle
    /\ credentials_file # NoneVal /\ cred_file_exists /\ ~env_creds
    /\ local_file.kind \in {"absent", "array"}
NextConcurrent ==
    \E c \in Callers :
        \/ /\ \E name \in {"A", "B"} :
                 SaveUserInfo(c, name, "a@b.com", <<NoneVal, NoneVal, NoneVal>>)
           /\ UNCHANGED besidesRecorder
        \/ RecorderSteps(c)
SpecConcurrent == InitConcurrent /\ [][NextConcurrent]_vars

\* ============================================================ the claims
Done(c) == pc[c] = "done"
ValidArgs(a) == a.name \notin {NoneVal, ""} /\ a.email \notin {NoneVal, ""}
SuccessText(name) ==
    <<"[OK] Da luu thong tin cua ", name,
      " thanh cong! Bo phan tuyen dung se lien he voi ban som nhat.">>
IsSuccess(msg) == Len(msg) = 3 /\ msg[1] = "[OK] Da luu thong tin cua "
IsFailure(msg) == Len(msg) = 2 /\ msg[1] = "[X] Loi khi luu thong tin: "
BothSinksFailed(c) ==
    Done(c) /\ ValidArgs(args[c]) /\ remote_error[c] # "none"
            /\ local_outcome[c] \notin {"none", "ok"} /\ "remote" \notin appended[c]

\* C1: every save_user_info call with valid input that returns the success
\* message has appended the submission to exactly one of the two sinks, and
\* no call appends to both, whatever the outcome of the remote steps.
C1_ExactlyOneSink ==
    \A c \in Callers :
        (Done(c) /\ ValidArgs(args[c])) =>
            /\ Cardinality(appended[c]) <= 1
            /\ IsSuccess(result[c]) => Cardinality(appended[c]) = 1

\* C2: when a step of the remote path of a valid call fails, the call goes
\* on to _save_to_local_file, and if the local write succeeds the call
\* returns the success message and a record with its name and email is in
\* the local fallback file.
C2_RemoteFailureFallsBack ==
    \A c \in Callers :
        (ValidArgs(args[c]) /\ remote_error[c] # "none") =>
            /\ pc[c] \in {"local_read", "local_write", "done"}
            /\ Done(c) => local_outcome[c] # "none"
            /\ (Done(c) /\ c = latest /\ local_outcome[c] = "ok") =>
                  /\ result[c] = SuccessText(args[c].name)
                  /\ local_file.kind = "array"
                  /\ \E i \in 1..Len(local_file.data) :
                        /\ local_file.data[i].name = args[c].name
                        /\ local_file.data[i].email = args[c].email

C2_Witness ==
    \E c \in Callers :
        /\ Done(c) /\ c = latest /\ ValidArgs(args[c])
        /\ remote_error[c] \in {"open_by_key", "col_values", "insert_row"}
        /\ local_outcome[c] = "ok"
        /\ "remote" \notin appended[c]

\* C3: a call whose name or email is empty or None returns the validation
\* message and touches neither sink: no client is created, the sheet and the
\* local file are as they were when the call started; every call with a
\* non-empty name and email passes validation.
C3_ValidationTouchesNothing ==
    \A c \in Callers :
        (Done(c) /\ c = latest) =>
            IF args[c].name \in {NoneVal, ""} \/ args[c].email \in {NoneVal, ""}
            THEN /\ result[c] = ValidationMsg
                 /\ ~client_created[c]
                 /\ appended[c] = {}
                 /\ remote_error[c] = "none" /\ local_outcome[c] = "none"
                 /\ sheet = sheet_at_call[c]
                 /\ local_file = file_at_call[c]
            ELSE result[c] # ValidationMsg

C3_Witness ==
    \E c \in Callers :
        /\ Done(c) /\ c = latest
        /\ args[c].name = "A" /\ args[c].email = ""
        /\ calls = 2
        /\ local_file.kind = "array" /\ Len(local_file.data) = 1

\* C4: a successful call that persisted to the remote sheet and a successful
\* call with the same name that persisted to the local file return the same
\* string.
C4_SuccessHidesSink ==
    \A c, d \in Callers :
        ( /\ Done(c) /\ IsSuccess(result[c]) /\ appended[c] = {"remote"}
          /\ Done(d) /\ IsSuccess(result[d]) /\ "local" \in appended[d]
          /\ args[c].name = args[d].name ) =>
            result[c] = result[d]

C4_Witness ==
    \E c, d \in Callers :
        /\ Done(c) /\ IsSuccess(result[c]) /\ appended[c] = {"remote"}
        /\ Done(d) /\ IsSuccess(result[d]) /\ appended[d] = {"local"}
        /\ args[c].name = args[d].name

\* C5: when the remote path and the local write of a valid call both fail,
\* the call returns one generic failure message: a failure text, not the
\* success message, that is the same whatever went wrong.
C5_GenericFailure ==
    \A c, d \in Callers :
        (BothSinksFailed(c) /\ BothSinksFailed(d)) =>
            /\ IsFailure(result[c]) /\ ~IsSuccess(result[c])
            /\ result[c] = result[d]

\* the part of C5 that the code keeps: a failure text, never the success message
C5_FailureNotSuccess ==
    \A c \in Callers :
        BothSinksFailed(c) => IsFailure(result[c]) /\ ~IsSuccess(result[c])

\* ------------------------------------------------ the matcher, as specified
\* the directory the latest get_current_jobs call of SpecMatch worked on
Directory == jobs_file.jobs
Called == job_calls >= 1 /\ job_pc = "idle"

\* the words of a lowercased position: the maximal runs without whitespace
PositionTerms(position) ==
    IF position = NoneStr THEN {}
    ELSE LET p == [i \in 1..Len(position) |-> LowerChar(position[i])]
         IN {SubSeq(p, i, j) : <<i, j>> \in
               {ij \in (1..Len(p)) \X (1..Len(p)) :
                  /\ ij[1] <= ij[2]
                  /\ \A k \in ij[1]..ij[2] : p[k] # " "
                  /\ ij[1] = 1 \/ p[ij[1] - 1] = " "
                  /\ ij[2] = Len(p) \/ p[ij[2] + 1] = " "}}

\* the comma-separated fields of lowercased skills, trimmed, the empty ones dropped
SkillTerms(skills) ==
    IF skills = NoneStr THEN {}
    ELSE LET s == [i \in 1..Len(skills) |-> LowerChar(skills[i])]
             n == Len(s)
             \* a..b is a trimmed, non-empty field lying between the commas around i..j
             IsField(i, j, a, b) ==
                 /\ i <= a /\ a <= b /\ b <= j
                 /\ \A k \in i..j : s[k] # ","
                 /\ i = 1 \/ s[i - 1] = ","
                 /\ j = n \/ s[j + 1] = ","
                 /\ s[a] # " " /\ s[b] # " "
                 /\ \A k \in i..(a - 1) : s[k] = " "
                 /\ \A k \in (b + 1)..j : s[k] = " "
         IN {SubSeq(s, ab[1], ab[2]) : ab \in
               {ab \in (1..n) \X (1..n) :
                  \E i \in 1..n, j \in 1..n : IsField(i, j, ab[1], ab[2])}}

ExpectedTerms(r) == PositionTerms(r.position) \cup SkillTerms(r.skills)

\* term occurs in the job's title, description and joined skills, whatever the case
OccursIn(term, job) ==
    LET text == job.title \o <<" ">> \o job.description \o <<" ">> \o Join(job.skills, <<" ">>)
    IN \E off \in 0..Len(text) :
          /\ off + Len(term) <= Len(text)
          /\ \A k \in 1..Len(term) : LowerChar(text[off + k]) = LowerChar(term[k])

JobMatches(job, terms) == \E t \in terms : OccursIn(t, job)

\* the stable filter of the directory by the terms
ExpectedJobs(jobs, terms) ==
    IF terms = {} THEN jobs ELSE SelectSeq(jobs, LAMBDA job : JobMatches(job, terms))

\* the jobs a result lists, by title, description and position in the listing
Listed(res) == IF res = DefaultMessage THEN <<>>
               ELSE [i \in 1..Len(res[2]) |->
                        <<res[2][i].idx, res[2][i].title, res[2][i].description,
                          res[2][i].location>>]
Numbered(jobs) == [i \in 1..Len(jobs) |->
                      <<i, jobs[i].title, jobs[i].description, jobs[i].location>>]

\* C6: when the search-term list is empty (position and skills None, empty,
\* or only whitespace and commas), get_current_jobs lists the whole
\* directory, every job, in load order.
C6_NoTermsListsAll ==
    (Called /\ ExpectedTerms(request) = {}) =>
        /\ Listed(job_result) = Numbered(Directory)
        /\ Directory # <<>> => job_result # DefaultMessage

C6_Witness ==
    /\ Called
    /\ request = Request(<<" ", " ">>, <<",", " ", ",">>)
    /\ Directory = <<J3, J2, J1>>
    /\ Len(Listed(job_result)) = 3

\* C7: with a non-empty search-term list, get_current_jobs lists exactly the
\* jobs in which at least one term occurs, case-insensitively, in title,
\* description and joined skills, in directory order; the result does not
\* change with the letter case of position and skills.
C7_StableFilterByAnyTerm ==
    (Called /\ ExpectedTerms(request) # {}) =>
        /\ Listed(job_result) = Numbered(ExpectedJobs(Directory, ExpectedTerms(request)))
        /\ job_result = MatchAndFormat(Directory,
                                       IF request.position = NoneStr THEN NoneStr
                                       ELSE Lower(request.position),
                                       IF request.skills = NoneStr THEN NoneStr
                                       ELSE Lower(request.skills))

C7_Witness ==
    /\ Called
    /\ request = Request(<<"A", " ", "A">>, <<" ", "B", "B">>)
    /\ Directory = <<J3, J2, J1>>
    /\ Listed(job_result) = Numbered(<<J2, J1>>)

\* C8: when there are search terms and none occurs in any job, the canned
\* message is returned and nothing is listed; the canned message is
\* returned only when the filtered result is empty.
C8_CannedMessageIffNoMatch ==
    Called =>
        /\ (ExpectedTerms(request) # {}
            /\ \A i \in 1..Len(Directory) : ~JobMatches(Directory[i], ExpectedTerms(request)))
              => job_result = DefaultMessage
        /\ job_result = DefaultMessage
              => ExpectedJobs(Directory, ExpectedTerms(request)) = <<>>

C8_Witness ==
    /\ Called
    /\ request = Request(<<"a", "a">>, <<"B", " ", "B">>)
    /\ Directory = <<J1, J2>>
    /\ job_result = DefaultMessage

\* C9 as claimed: the backing source is read by the first get_current_jobs
\* call only.
C9_ReadByFirstCallOnly == job_calls >= 2 => fetched = {}

\* C9 as amended: every call goes to the backing source until a load
\* succeeds (a non-empty list from Google Sheets, or a local jobs file that
\* can be read); that load fills the cache, and every later call is served
\* from the cached list, without a read and without changing it.
C9_CachedOnceLoaded ==
    Called =>
        /\ prior_cache.set =>
              /\ fetched = {}
              /\ jobs_cache = prior_cache
              /\ job_result = MatchAndFormat(prior_cache.jobs, request.position, request.skills)
        /\ ~prior_cache.set => fetched # {}
        /\ ~jobs_cache.set => "file" \in fetched /\ jobs_file.kind # "valid"

C9_Witness ==
    /\ Called /\ job_calls = 3
    /\ prior_cache = Cached(<<J1, J2>>)
    /\ remote_jobs = <<J1>>
    /\ fetched = {}
    /\ Len(Listed(job_result)) = 2

\* C10: after the force reload the job cache is invalidated and the next
\* get_current_jobs call fetches the directory from the backing source.
C10_ReloadRefetchesJobs ==
    /\ reload_requested => ~jobs_cache.set
    /\ (job_calls >= 1 /\ after_reload) => fetched # {}

\* ---------------------------------------------------------------- C11
\* Two _load_jobs calls in a row
LoadedTwice == prev_load.source # "none" /\ last_load.source # "none"

\* C11: two consecutive loads of the job directory with unchanged source
\* data yield identical job lists, equal in order and in content: a load
\* answered by the cache returns the list of the load before it, and two
\* loads answered by the same source (the jobs tab, the local file) whose
\* data did not change return the same list.
C11_LoadIdempotent ==
    LoadedTwice =>
        /\ last_load.source = "cache" => last_load.jobs = prev_load.jobs
        /\ (/\ last_load.source \in {"sheets", "file"}
            /\ prev_load.source = last_load.source
            /\ prev_load.data = last_load.data)
           => last_load.jobs = prev_load.jobs

\* Two loads from the jobs tab, before and after a restart
C11_Witness ==
    /\ prev_load = Load("sheets", Records(<<R1, R2>>), <<J1, J2>>)
    /\ last_load = Load("sheets", Records(<<R1, R2>>), <<J1, J2>>)
    /\ job_calls = 2

\* ---------------------------------------------------------------- C12
\* _parse_list_field has returned
Parsed == parsed # NotParsed

\* the character the cell is split on, "" for none
Separator ==
    IF \E i \in 1..Len(cell) : cell[i] = "," THEN ","
    ELSE IF \E i \in 1..Len(cell) : cell[i] = "\n" THEN "\n"
    ELSE ""

\* cell[a..b] holds no separator
InOneField(a, b) == \A i \in a..b : cell[i] # Separator
Blank(i) == cell[i] = " " \/ cell[i] = "\n"

\* the places <<a, b>> of the trimmed, non-empty items of the cell
ItemRanges ==
    {r \in (1..Len(cell)) \X (1..Len(cell)) :
        /\ r[1] <= r[2]
        /\ InOneField(r[1], r[2])
        /\ ~Blank(r[1]) /\ ~Blank(r[2])
        /\ \A i \in 1..(r[1] - 1) : InOneField(i, r[1]) => Blank(i)
        /\ \A i \in (r[2] + 1)..Len(cell) : InOneField(r[2], i) => Blank(i)}

\* C12: _parse_list_field splits the cell on the comma if it holds one,
\* otherwise on the newline if it holds one, otherwise not at all; it returns
\* the trimmed items in the order of the cell without the empty ones: the
\* empty cell yields the empty list and no returned item is empty or has
\* surrounding whitespace.
C12_ParseListField ==
    Parsed =>
        /\ Len(parsed) = Cardinality(ItemRanges)
        /\ \A k \in 1..Len(parsed) :
              /\ \E r \in ItemRanges :
                    /\ parsed[k] = SubSeq(cell, r[1], r[2])
                    /\ Cardinality({q \in ItemRanges : q[1] < r[1]}) = k - 1
              /\ parsed[k] # <<>>
              /\ parsed[k][1] \notin {" ", "\n"}
              /\ parsed[k][Len(parsed[k])] \notin {" ", "\n"}
        /\ cell = <<>> => parsed = <<>>

\* A cell with a comma and a newline: the comma decides
C12_Witness ==
    /\ cell = <<"a", "\n", ",", "a">>
    /\ parsed = << <<"a">>, <<"a">> >>

\* ---------------------------------------------------------------- C13
\* the text q holds the text part
Carries(q, part) ==
    \E a \in 1..Len(q) : \E b \in a..Len(q) : SubSeq(q, a, b) = part

\* C13: every query sent by the web search is restricted to the allow-list of
\* recruitment domains: the q parameter of every request to the search
\* backend carries the site scope built from recruitment_sites.
C13_QueryCarriesSiteScope ==
    \A i \in 1..Len(http_requests) : Carries(http_requests[i].q, BuildSiteScope)

\* ---------------------------------------------------------------- C14
\* C14: for every max_results (0, negative, above 10, None included) the
\* number of results requested from the backend is within 1..10: it is
\* max_results cut to 1..10, with 5 when max_results is 0 or absent.
C14_RequestedWithinCap ==
    \A i \in 1..Len(http_requests) :
        LET n == http_requests[i].num
            m == search_args.max_results
        IN /\ n \in 1..10
           /\ (m = NoInt \/ m = <<0>>) => n = 5
           /\ (m # NoInt /\ m # <<0>>) =>
                 /\ m[1] \in 1..10 => n = m[1]
                 /\ m[1] > 10 => n = 10
                 /\ m[1] < 0 => n = 1

\* A negative max_results has been sent as 1
C14_Witness ==
    /\ search_args.max_results = <<-2>>
    /\ Len(http_requests) = 1
    /\ http_requests[1].num = 1

\* ---------------------------------------------------------------- C15
\* the results of the answer that have a link, by their place in the answer
LinkedResults == {i \in 1..Len(backend.items) : backend.items[i].link # ""}
\* the j-th of them
NthLinked(j) ==
    CHOOSE i \in LinkedResults : Cardinality({x \in LinkedResults : x < i}) = j - 1
LinesOfKind(kind) == {l \in 1..Len(search_result) : search_result[l].kind = kind}

\* C15: the text returned for a list of results ends with a citation section
\* of exactly min(3, k) links, k being the number of results with a non-empty
\* link: the first such links in result order, verbatim; the section is
\* absent only when k = 0.
C15_CitationSection ==
    (search_result # NoResult /\ backend.kind = "items") =>
        LET k == Cardinality(LinkedResults)
            c == IF k < 3 THEN k ELSE 3
            n == Len(search_result)
        IN /\ Cardinality(LinesOfKind("citation")) = c
           /\ k = 0 => LinesOfKind("sources") = {}
           /\ k > 0 =>
                 /\ LinesOfKind("sources") = {n - c}
                 /\ \A j \in 1..c :
                       /\ search_result[n - c + j].kind = "citation"
                       /\ search_result[n - c + j].text = backend.items[NthLinked(j)].link

\* Four results with a link: the first three are cited
C15_Witness ==
    /\ Cardinality(LinkedResults) = 4
    /\ Len(search_result) > 4
    /\ search_result[Len(search_result)] = Line("citation", 0, "u4")
    /\ search_result[Len(search_result) - 3] = Line("sources", 0, "")

\* ---------------------------------------------------------------- C16
ConfigMissing == api_key = NoneVal \/ cx = NoneVal
CouldNotSearch ==
    Len(search_result) = 1 /\ search_result[1].kind = "could_not_search"

\* C16: a search_recruitment_info call in which the backend fails or the
\* credentials are missing returns the 'could not search' message and does
\* not retry: at most one HTTP request per call, none when the credentials
\* are missing.
C16_FailureWithoutRetry ==
    search_result # NoResult =>
        /\ Len(http_requests) <= 1
        /\ ConfigMissing => (Len(http_requests) = 0 /\ CouldNotSearch)
        /\ backend.kind = "error" => (Len(http_requests) = 1 /\ CouldNotSearch)

\* The backend failed: one request, the failure message
C16_Witness ==
    /\ backend.kind = "error"
    /\ backend.error = "ReadTimeout"
    /\ Len(http_requests) = 1
    /\ CouldNotSearch

\* ---------------------------------------------------------------- C17
\* the strings save_user_info returns
RecorderText(msg) ==
    \/ msg = <<"Loi: Ten va email la bat buoc. Vui long cung cap day du thong tin.">>
    \/ IsSuccess(msg)
    \/ IsFailure(msg)
\* the strings get_current_jobs returns
JobsText(msg) == msg = <<"default_message">> \/ (Len(msg) = 2 /\ msg[1] = "listing")
\* the strings search_recruitment_info returns
SearchText(msg) ==
    /\ msg # <<>>
    /\ \A l \in 1..Len(msg) :
          msg[l].kind \in {"not_found", "could_not_search", "header", "blank", "title",
                           "snippet", "link", "sources", "citation"}
\* the latest turn: agent.chat raised
TurnFailed == agent_outcome.kind = "raises" /\ messages # <<>>
LastMessage == messages[Len(messages)]

\* C17: no tool error propagates as a raw exception: whatever the sheet
\* client, the file system and the HTTP backend do, save_user_info,
\* get_current_jobs and search_recruitment_info each return a string, and an
\* exception of the agent during a turn is caught by handle_user_input and
\* becomes an apology message of the assistant.
C17_NoRawException ==
    /\ \A c \in Callers : Done(c) => RecorderText(result[c])
    /\ (job_calls >= 1 /\ job_pc = "idle") => JobsText(job_result)
    /\ search_result # NoResult => SearchText(search_result)
    /\ ~escaped
    /\ TurnFailed =>
          /\ LastMessage.role = "assistant"
          /\ LastMessage.content[1] = "[X] Xin loi, da co loi xay ra: "

\* A turn in which the agent raised: the user entry, then the apology
C17_Witness ==
    /\ TurnFailed
    /\ agent_outcome.error = "RateLimitError 429"
    /\ Len(messages) = 3
    /\ messages[2].role = "user"
    /\ LastMessage.role = "assistant"
    /\ LastMessage.content[1] = "[X] Xin loi, da co loi xay ra: "
    /\ ~escaped

\* ---------------------------------------------------------------- C18
\* the text holds the exception text as one of its parts
Embeds(text, e) == \E i \in 1..Len(text) : text[i] = e

\* C18: raw exception detail stays in the log: the text that
\* save_user_info, search_recruitment_info and handle_user_input return to
\* the user in a failure path does not depend on the text of the exception:
\* two failed saves return the same text, and the text of a failed search or
\* a failed turn does not hold the text of its exception.
C18_FailureTextIndependent ==
    /\ \A c, d \in Callers :
          (Done(c) /\ Done(d) /\ IsFailure(result[c]) /\ IsFailure(result[d]))
             => result[c] = result[d]
    /\ (search_result # NoResult /\ backend.kind = "error") =>
          \A l \in 1..Len(search_result) : search_result[l].text # backend.error
    /\ TurnFailed => ~Embeds(LastMessage.content, agent_outcome.error)

\* ---------------------------------------------------------------- C19
\* the latest calls of c and d both wrote to the sheet and returned success
\* after computing the same next_row
RacedOnRow(c, d) ==
    /\ c # d
    /\ Done(c) /\ Done(d)
    /\ next_row[c] > 0 /\ next_row[c] = next_row[d]
    /\ IsSuccess(result[c]) /\ appended[c] = {"remote"}
    /\ IsSuccess(result[d]) /\ appended[d] = {"remote"}

Stored(v) == IF v = NoneVal THEN "" ELSE v
\* the row holds the six fields of the arguments a, in order
RowHolds(row, a) ==
    /\ Len(row) = 6
    /\ row[1][1] = "ts"
    /\ row[2] = a.name /\ row[3] = a.email
    /\ row[4] = Stored(a.phone) /\ row[5] = Stored(a.profile_link)
    /\ row[6] = Stored(a.job_id)
\* the local record holds the six fields of the arguments a
RecordHolds(rec, a) ==
    /\ DOMAIN rec = {"timestamp", "name", "email", "phone", "profile_link", "job_id"}
    /\ rec.timestamp[1] = "ts"
    /\ rec.name = a.name /\ rec.email = a.email
    /\ rec.phone = Stored(a.phone) /\ rec.profile_link = Stored(a.profile_link)
    /\ rec.job_id = Stored(a.job_id)
\* the record the local write of the latest call left last in the file
LastRecord == local_file.data[Len(local_file.data)]

\* C22: a persisted submission carries the same six fields with the same
\* values in either sink: the remote row is <<timestamp, name, email, phone,
\* profile_link, job_id>>, the local record has those six keys, and an absent
\* optional field is stored as the empty string, never as None.
C22_SameSixFields ==
    /\ \A c \in Callers :
          (Done(c) /\ c = latest /\ "remote" \in appended[c])
             => RowHolds(sheet[next_row[c]], args[c])
    /\ \A c \in Callers :
          (Done(c) /\ c = latest /\ "local" \in appended[c])
             => RecordHolds(LastRecord, args[c])
    /\ \A i \in 1..Len(sheet) : \A k \in 4..6 : sheet[i][k] # NoneVal
    /\ \A i \in 1..Len(local_file.data) :
          /\ local_file.data[i].phone # NoneVal
          /\ local_file.data[i].profile_link # NoneVal
          /\ local_file.data[i].job_id # NoneVal

\* One submission in the sheet and one in the local file, both without the
\* optional fields
C22_Witness ==
    /\ Done(1) /\ Done(2)
    /\ appended[1] = {"remote"} /\ appended[2] = {"local"}
    /\ args[1].phone = NoneVal /\ args[2].phone = NoneVal
    /\ sheet[1][4] = "" /\ sheet[1][6] = ""
    /\ LastRecord.phone = "" /\ LastRecord.job_id = ""
    /\ LastRecord.name = args[2].name

\* ---------------------------------------------------------------- C23
\* the records of the file when the latest call started
RecordsAtCall(c) ==
    IF file_at_call[c].kind = "absent" THEN <<>> ELSE file_at_call[c].data

\* C23: the local fallback store is append-only: a successful sequential
\* _save_to_local_file leaves a JSON array holding the records that were
\* there, unchanged and in place, with the new record last (a one-element
\* array when the file was absent); a failed call leaves the file content
\* unchanged.
C23_LocalAppendOnly ==
    \A c \in Callers :
        (Done(c) /\ c = latest /\ local_outcome[c] # "none") =>
            IF local_outcome[c] = "ok"
            THEN /\ local_file.kind = "array"
                 /\ Len(local_file.data) = Len(RecordsAtCall(c)) + 1
                 /\ SubSeq(local_file.data, 1, Len(RecordsAtCall(c))) = RecordsAtCall(c)
                 /\ LastRecord.name = args[c].name
            ELSE local_file = file_at_call[c]

\* ---------------------------------------------------------------- C24
\* C24: without a concurrent writer a successful remote save_user_info puts
\* its row right after the last populated row (index = number of column-A
\* values + 1): the rows that were there are neither changed nor moved, and
\* the rows of the sheet are in submission order.
C24_RemoteRowsInOrder ==
    /\ \A c \in Callers :
          (Done(c) /\ c = latest /\ appended[c] = {"remote"} /\ IsSuccess(result[c])) =>
              /\ next_row[c] = Len(sheet_at_call[c]) + 1
              /\ Len(sheet) = Len(sheet_at_call[c]) + 1
              /\ SubSeq(sheet, 1, Len(sheet_at_call[c])) = sheet_at_call[c]
              /\ sheet[Len(sheet)][2] = args[c].name
    /\ \A i, j \in 1..Len(sheet) : i < j => sheet[i][1][2] < sheet[j][1][2]

\* Two remote saves one after the other: the second row follows the first
C24_Witness ==
    /\ Done(1) /\ Done(2) /\ latest = 2
    /\ appended[1] = {"remote"} /\ appended[2] = {"remote"}
    /\ IsSuccess(result[1]) /\ IsSuccess(result[2])
    /\ args[1].name = "A" /\ args[2].name = "B"
    /\ Len(sheet) = 2
    /\ sheet[1][2] = "A" /\ sheet[2][2] = "B"

\* ---------------------------------------------------------------- C25
\* C25: the credentials of the recorder are resolved in order, environment
\* first, then the file, and a valid call gives up the remote path before
\* asking for a client only when neither is available: with environment
\* credentials set the remote sheet is attempted whether or not a
\* credentials file exists.
C25_EnvCredentialsFirst ==
    \A c \in Callers :
        (Done(c) /\ ValidArgs(args[c]) /\ remote_error[c] = "credentials_file") =>
            /\ ~env_creds
            /\ credentials_file = NoneVal \/ ~cred_file_exists

\* ---------------------------------------------------------------- C28
\* both calls wrote the local file and returned success
BothSavedLocally(c, d) ==
    /\ c # d /\ Done(c) /\ Done(d)
    /\ local_outcome[c] = "ok" /\ local_outcome[d] = "ok"
    /\ IsSuccess(result[c]) /\ IsSuccess(result[d])

\* C28: two concurrent _save_to_local_file calls never lose a record:
\* whatever the interleaving of their read, append and write-back steps,
\* after both returned the success message the file holds both submissions.
C28_NoLostLocalRecord ==
    \A c, d \in Callers :
        BothSavedLocally(c, d) =>
            /\ local_file.kind = "array"
            /\ \E i, j \in 1..Len(local_file.data) :
                  /\ i # j
                  /\ local_file.data[i].name = args[c].name
                  /\ local_file.data[j].name = args[d].name

\* ---------------------------------------------------------------- C26
\* the latest get_current_jobs call has returned and it loaded the directory
LoadedNow == job_calls >= 1 /\ job_pc = "idle" /\ ~prior_cache.set
\* the jobs a local file holds
FileJobs(file) == IF file.kind = "valid" THEN file.jobs ELSE <<>>

\* C26: when the job source is unavailable (Sheets disabled, the load raises
\* or returns no jobs) the directory is recovered from the local jobs file;
\* when the Sheets load returns a non-empty list that list is the directory
\* and the local file is not read; the failure of the remote source never
\* shows in the text get_current_jobs returns.
C26_RecoveredFromLocalFile ==
    LoadedNow =>
        /\ last_load.source \in {"sheets", "file"}
        /\ ~use_google_sheets => (last_load.source = "file" /\ "sheets" \notin fetched)
        /\ last_load.source = "sheets" =>
              /\ last_load.jobs # <<>>
              /\ fetched = {"sheets"}
              /\ jobs_cache = [set |-> TRUE, jobs |-> last_load.jobs]
        /\ last_load.source = "file" =>
              /\ "file" \in fetched
              /\ last_load.jobs = FileJobs(last_load.data.file)
        /\ job_result = <<"default_message">>
           \/ (Len(job_result) = 2 /\ job_result[1] = "listing")

\* The sheet has jobs but the load failed: the jobs of the local file are listed
C26_Witness ==
    /\ LoadedNow
    /\ use_google_sheets /\ remote_jobs # <<>>
    /\ last_load.source = "file"
    /\ last_load.jobs = <<J3>>
    /\ job_result[1] = "listing"

\* ---------------------------------------------------------------- C29
\* C29: after a job load that succeeds from Google Sheets the local jobs file
\* holds the same job list as the in-memory cache used for matching, even
\* when the sheet changes or becomes unavailable during the load.
C29_FileEqualsCache ==
    (job_calls >= 1 /\ job_pc = "idle" /\ last_load.source = "sheets") =>
        /\ jobs_cache.set
        /\ jobs_file = [kind |-> "valid", jobs |-> jobs_cache.jobs]

\* ---------------------------------------------------------------- C30
Role(i) == IF i % 2 = 1 THEN "assistant" ELSE "user"
Alternates(msgs) ==
    /\ Len(msgs) % 2 = 1
    /\ \A i \in 1..Len(msgs) : msgs[i].role = Role(i)
\* the step is a handle_user_input call
IsTurn == turns' = turns + 1
TurnAppendsTwo ==
    IsTurn =>
        /\ Len(messages') = Len(messages) + 2
        /\ SubSeq(messages', 1, Len(messages)) = messages
        /\ messages'[Len(messages) + 1].role = "user"
        /\ messages'[Len(messages) + 2].role = "assistant"

\* C30: every handle_user_input call appends exactly two entries to the
\* session's message list, a user entry and then an assistant entry, whether
\* the agent answers, answers with nothing or raises; so after the greeting
\* and any sequence of turns the list alternates assistant, user, ...,
\* starting and ending with an assistant entry.
C30_TwoEntriesPerTurn ==
    /\ [][TurnAppendsTwo]_vars
    /\ [](messages # <<>> => (messages[1] = Greeting /\ Alternates(messages)))

\* Two turns after the greeting: one answered with nothing, one that raised
C30_Witness ==
    /\ Len(messages) = 5
    /\ \E i \in {3, 5} : messages[i].content = <<"">>
    /\ \E i \in {3, 5} : \E e \in AgentErrors : messages[i].content = ApologyMsg(e)

\* ---------------------------------------------------------------- C21
Range(seq) == {seq[i] : i \in DOMAIN seq}
\* the rows the table holds
IndexRows == {vector_db[i].row : i \in DOMAIN vector_db}
LacksColumn(tab) == ~(required_columns \subseteq tab.columns)
\* the rows of the versions of the tab that lack a required column
RowsLackingColumn ==
    UNION {Range(v.rows) : v \in {w \in KnowledgeSheetVersions : LacksColumn(w)}}
SetupReturned == kb_calls >= 1 /\ kb_pc = "idle"

\* C21: when the knowledge tab lacks one of the required columns Question,
\* Answer, Category the whole load is rejected: load_knowledge_data returns
\* None, no CSV cache is written from it, and setup_knowledge_base adds no
\* record of that tab to the knowledge index.
C21_MissingColumnRejectsLoad ==
    /\ \A i \in DOMAIN kb_fetches :
          LacksColumn(kb_fetches[i].sheet) => kb_fetches[i].frame = NoFrame
    /\ (kb_fetches # <<>> /\ LacksColumn(kb_fetches[1].sheet)) =>
          /\ df = NoFrame
          /\ Len(kb_fetches) = 1
          /\ csv_file = csv_at_call
          /\ IndexRows \subseteq Range(csv_at_call.rows) \cup
                                 {vector_db_at_call[i].row : i \in DOMAIN vector_db_at_call}
    /\ (Len(kb_fetches) = 2 /\ LacksColumn(kb_fetches[2].sheet)) => csv_file = csv_at_call
    /\ Range(csv_file.rows) \cap RowsLackingColumn = {}
    /\ IndexRows \cap RowsLackingColumn = {}

\* A reload read a tab with rows and without the Category column: the call
\* returned, the CSV file is the one from before and it was added again
C21_Witness ==
    /\ SetupReturned /\ kb_op = "reload"
    /\ kb_fetches # <<>>
    /\ kb_fetches[1].outcome = "ok"
    /\ kb_fetches[1].sheet = KnowledgeSheet({"Question", "Answer"}, <<"q4">>)
    /\ csv_file.kind = "present"
    /\ kb_ingest = "ok"
    /\ IndexRows = Range(csv_file.rows)

\* ---------------------------------------------------------------- C27
\* the frames the loads of the latest call returned
FramesLoaded == {kb_fetches[i].frame : i \in {j \in DOMAIN kb_fetches : kb_fetches[j].frame.set}}
ReloadReturned == SetupReturned /\ kb_op = "reload"

\* C27: reloading the knowledge store replaces the snapshot: after
\* reload_knowledge returns, the index holds exactly the records of the newly
\* loaded source and no record that was only in the previous snapshot;
\* setup_knowledge_base contacts the remote source only when force_reload is
\* set or the CSV cache is absent, and reload_knowledge always forces it.
C27_ReloadReplacesSnapshot ==
    /\ (ReloadReturned /\ FramesLoaded # {}) =>
          \E frame \in FramesLoaded : IndexRows = Range(frame.rows)
    /\ (ReloadReturned /\ FramesLoaded = {} /\ csv_file.kind = "present") =>
          IndexRows = Range(csv_file.rows)
    /\ kb_fetches # <<>> =>
          (kb_use_google_sheets /\ (force_reload \/ csv_at_call.kind = "absent"))
    /\ kb_op = "reload" => force_reload

====
